---- MODULE Spec2Model ----
(***************************************************************************)
(* The friend-request part of the users app: the FriendRequest table, the  *)
(* FriendRequestSerializer (validate / update) and the operations that the *)
(* router exposes through FriendRequestViewSet and UserSearchViewSet.      *)
(* A handler that reads the database and writes it later is split between  *)
(* the two, so that handlers running in different workers interleave as    *)
(* they do in the deployed application (no transaction spans a request).   *)
(* A response is handed to its caller (Return) before the next step is     *)
(* taken; Return changes nothing else, so no interleaving of the steps is  *)
(* lost. The number of calls of a run is bounded; users, rows and the      *)
(* calls in flight at a time are bounded by nothing else.                  *)
(***************************************************************************)
EXTENDS Integers, FiniteSets, Sequences, Bags, TLC

\* ---------------------------------------------------------------- bounds
MaxCalls == 6      \* calls the server receives in a run
MaxLen == 2        \* length of a name and of a search query, in characters

\* primary keys: each call inserts one row at most
UserIds == 1..MaxCalls
RequestIds == 1..MaxCalls

\* ------------------------------------------------------------- constants
NoUser == 0                 \* a payload without to_user (attrs.get -> None)
Absent == "absent"          \* a payload without status
PENDING == "pending"
ACCEPTED == "accepted"
REJECTED == "rejected"
Status == {PENDING, ACCEPTED, REJECTED}
Terminal == {ACCEPTED, REJECTED}

\* outcomes of a call; the serializer's messages are named after the error
\* taxonomy: "You cannot send a friend request to yourself." = SelfRequest,
\* "Friend request already exists." = DuplicateRequest, "You can only accept
\* or reject requests sent to you." = Unauthorized, an invalid pk = UnknownUser,
\* a 404 of get_object = NotFound, a constraint failure of the database =
\* IntegrityError, a missing required field = Required.
OK == "ok"

\* no query has been answered: a list no query returns (NoUser is no row)
NoAnswer == <<NoUser>>

VARIABLES
  users,          \* ids of the rows of the User table
  nextUserId,     \* auto-increment key of User
  requests,       \* rows of the FriendRequest table
  nextRequestId,  \* auto-increment key of FriendRequest
  clock,          \* server clock, read by auto_now_add
  inflight,       \* bag of the calls being handled, each with what its handler holds
  last,           \* the response being returned to its caller, if any
  everCreated,    \* ordered pairs for which a row was ever inserted (history)
  calls,          \* number of calls received so far (history)
  directory,      \* email and name of the rows of User, where a query reads them
  query,          \* the argument of the query answered last
  found           \* the answer to it

\* what the read-only endpoints are observed through
reads == <<directory, query, found>>

vars == <<users, nextUserId, requests, nextRequestId, clock, inflight, last,
          everCreated, calls, directory, query, found>>

\* ------------------------------------------------------------ the tables
FriendRequest(id, from_user, to_user, status, created_at) ==
  [id |-> id, from_user |-> from_user, to_user |-> to_user,
   status |-> status, created_at |-> created_at]

NoInstance == FriendRequest(0, NoUser, NoUser, Absent, 0)

\* a call between its validation and its write: the acting user, the to_user
\* of a create and, for an update, the row get_object() read; seen tells
\* whether the pair of a create had been inserted before the call began
\* (history). The status of the payload is any value of the choice field and
\* nothing reads it before the write, so it is drawn where the write happens.
Call(op, user, to_user, instance, seen) ==
  [op |-> op, user |-> user, to_user |-> to_user,
   instance |-> instance, seen |-> seen]

Calls == BagToSet(inflight)
Take(c) == inflight (+) SetToBag({c})
Drop(c) == inflight (-) SetToBag({c})

Row(table, id) == CHOOSE r \in table : r.id = id
HasRow(table, id) == \E r \in table : r.id = id
StatusOf(table, id) == IF HasRow(table, id) THEN Row(table, id).status ELSE Absent

\* the existence check matching a row of the pair in either direction
exists_either_direction(table, from_user, to_user) ==
  \E r \in table : \/ (r.from_user = from_user /\ r.to_user = to_user)
                   \/ (r.from_user = to_user /\ r.to_user = from_user)

\* FriendRequest.objects.filter(from_user=..., to_user=...).exists()
exists(table, from_user, to_user) ==
  \E r \in table : r.from_user = from_user /\ r.to_user = to_user

\* the table without its unique constraint
unique_together_off(table, from_user, to_user) == TRUE

\* Meta.unique_together = ('from_user', 'to_user'), checked by the database
unique_together(table, from_user, to_user) ==
  ~ \E r \in table : r.from_user = from_user /\ r.to_user = to_user

\* ForeignKey(User): both ends must be rows of User when a row is written
foreign_keys(us, from_user, to_user) == from_user \in us /\ to_user \in us

\* status = CharField(default=Status.PENDING); the serializer leaves status
\* writable, so create() passes a status of the payload on to the insert
create_status(status) == IF status = Absent THEN PENDING ELSE status

\* a response on its way to the caller: the operation, its outcome, and the
\* facts about the call that the properties below speak of
NoResponse ==
  [op |-> "none", result |-> "none",
   rid |-> 0,              \* id of the row a create inserted or an update wrote
   self |-> FALSE,         \* create: to_user is the acting user
   dup |-> FALSE,          \* create: the pair had a row when the call ended
   seen |-> FALSE,         \* create: the pair had been inserted before the call began
   byRecipient |-> FALSE,  \* update: the acting user is the to_user of the row
   plain |-> FALSE,        \* update refused: a PATCH whose payload is a status only
   loaded |-> Absent,      \* update: status of the row as get_object() read it
   before |-> Absent,      \* update: status of the row just before the write
   wrote |-> FALSE]        \* the call changed the FriendRequest table

Response(op, result) == [NoResponse EXCEPT !.op = op, !.result = result]

Created(result, rid, user, to_user, seen, table) ==
  [Response("create", result) EXCEPT
     !.rid = rid, !.self = (user = to_user), !.dup = exists(table, user, to_user),
     !.seen = seen, !.wrote = (result = OK)]

Rejected(result, user, instance, to_user, partial) ==
  [Response("update", result) EXCEPT
     !.byRecipient = (instance.to_user = user),
     !.plain = (to_user = NoUser /\ partial)]

Updated(result, user, instance, before, wrote) ==
  [Response("update", result) EXCEPT
     !.rid = instance.id, !.byRecipient = (instance.to_user = user),
     !.loaded = instance.status, !.before = before, !.wrote = wrote]

Init ==
  /\ users = {}
  /\ nextUserId = 1
  /\ requests = {}
  /\ nextRequestId = 1
  /\ clock = 1
  /\ inflight = EmptyBag
  /\ last = NoResponse
  /\ everCreated = {}
  /\ calls = 0
  /\ directory = <<>>
  /\ query = <<>>
  /\ found = NoAnswer

\* a worker picks up the next call
Receive ==
  /\ last = NoResponse
  /\ calls < MaxCalls
  /\ calls' = calls + 1

\* SignupView.post / POST users/: a new row of User
Signup ==
  /\ Receive
  /\ users' = users \cup {nextUserId}
  /\ nextUserId' = nextUserId + 1
  /\ last' = Response("signup", OK)
  /\ UNCHANGED reads
  /\ UNCHANGED <<requests, nextRequestId, clock, inflight, everCreated>>

\* ------------------------------------------------------------ serializer
\* validate() without the comparison of from_user and to_user
validate_no_self(user, to_user, table) ==
  IF exists(table, user, to_user) THEN "DuplicateRequest" ELSE OK

\* FriendRequestSerializer.validate: from_user is the requesting user; runs
\* for create and for update alike (attrs.get('to_user') is None when the
\* payload has no to_user, and no row has a null to_user)
validate(user, to_user, table) ==
  IF user = to_user THEN "SelfRequest"
  ELSE IF exists(table, user, to_user) THEN "DuplicateRequest"
  ELSE OK

\* serializer.is_valid(): the field validation of to_user (required unless
\* the update is partial, and a pk of an existing user), then validate()
is_valid(user, to_user, partial, table, us) ==
  IF to_user = NoUser /\ ~partial THEN "Required"
  ELSE IF to_user # NoUser /\ to_user \notin us THEN "UnknownUser"
  ELSE validate(user, to_user, table)

\* update() without the recipient check
update_anyone(instance, user, status) ==
  [result |-> OK,
   instance |-> [instance EXCEPT !.status =
                   IF status = Absent THEN instance.status ELSE status]]

\* FriendRequestSerializer.update up to instance.save(): the recipient check
\* and the assignment of the status
update(instance, user, status) ==
  IF instance.to_user # user
    THEN [result |-> "Unauthorized", instance |-> instance]
    ELSE [result |-> OK,
          instance |-> [instance EXCEPT !.status =
                          IF status = Absent THEN instance.status ELSE status]]

\* ------------------------------------------------------------- create
\* POST friend-requests/ up to the end of serializer.is_valid()
CreateBegin(user, to_user) ==
  /\ Receive
  /\ user \in users
  /\ LET result == is_valid(user, to_user, FALSE, requests, users)
         seen == <<user, to_user>> \in everCreated
     IN IF result = OK
          THEN /\ inflight' = Take(Call("create", user, to_user, NoInstance, seen))
               /\ UNCHANGED last
          ELSE /\ last' = Created(result, 0, user, to_user, seen, requests)
               /\ UNCHANGED inflight
  /\ UNCHANGED reads
  /\ UNCHANGED <<users, nextUserId, requests, nextRequestId, clock, everCreated>>

\* perform_create -> serializer.save() -> FriendRequest.objects.create(**validated_data)
CreateSave(status) ==
  /\ last = NoResponse
  /\ \E c \in Calls :
       /\ c.op = "create"
       /\ IF foreign_keys(users, c.user, c.to_user)
             /\ unique_together(requests, c.user, c.to_user)
            THEN /\ requests' = requests \cup
                      {FriendRequest(nextRequestId, c.user, c.to_user,
                                     create_status(status), clock)}
                 /\ nextRequestId' = nextRequestId + 1
                 /\ clock' = clock + 1
                 /\ everCreated' = everCreated \cup {<<c.user, c.to_user>>}
                 /\ last' = Created(OK, nextRequestId, c.user, c.to_user, c.seen, requests)
            ELSE /\ last' = Created("IntegrityError", 0, c.user, c.to_user, c.seen, requests)
                 /\ UNCHANGED <<requests, nextRequestId, clock, everCreated>>
       /\ inflight' = Drop(c)
  /\ UNCHANGED reads
  /\ UNCHANGED <<users, nextUserId, calls>>

\* ------------------------------------------------------------- update
\* instance.save(): an UPDATE of the row with the primary key of the instance
\* held in memory, and an INSERT of that instance (auto_now_add sets its
\* created_at again) when the UPDATE matched no row; the INSERT is subject to
\* the constraints of the table
save(table, us, now, instance) ==
  IF HasRow(table, instance.id)
    THEN [result |-> OK, inserted |-> FALSE,
          table |-> (table \ {Row(table, instance.id)}) \cup {instance}]
  ELSE IF foreign_keys(us, instance.from_user, instance.to_user)
          /\ unique_together(table, instance.from_user, instance.to_user)
    THEN [result |-> OK, inserted |-> TRUE,
          table |-> table \cup {[instance EXCEPT !.created_at = now]}]
  ELSE [result |-> "IntegrityError", inserted |-> FALSE, table |-> table]

\* PUT / PATCH friend-requests/{id}/ up to instance.save(): get_object() loads
\* the row, serializer.is_valid() validates the payload (with or without a
\* to_user, partial or not), and update() checks the acting user against the
\* loaded row. update() reads nothing of the validated data but the status.
UpdateBegin(user, rid) ==
  /\ Receive
  /\ user \in users
  /\ IF ~HasRow(requests, rid)
       THEN /\ last' = Response("update", "NotFound")
            /\ UNCHANGED inflight
       ELSE \E to_user \in UserIds \cup {NoUser}, partial \in BOOLEAN :
              LET instance == Row(requests, rid)
                  result == is_valid(user, to_user, partial, requests, users)
                  u == update(instance, user, Absent)
              IN IF result # OK
                   THEN /\ last' = Rejected(result, user, instance, to_user, partial)
                        /\ UNCHANGED inflight
                   ELSE IF u.result # OK
                     THEN /\ last' = Rejected(u.result, user, instance, to_user, partial)
                          /\ UNCHANGED inflight
                     ELSE /\ inflight' = Take(Call("update", user, NoUser, instance, FALSE))
                          /\ UNCHANGED last
  /\ UNCHANGED reads
  /\ UNCHANGED <<users, nextUserId, requests, nextRequestId, clock, everCreated>>

\* the rest of FriendRequestSerializer.update: instance.save() with the
\* status assigned, and the response
UpdateSave(status) ==
  /\ last = NoResponse
  /\ \E c \in Calls :
       /\ c.op = "update"
       /\ LET u == update(c.instance, c.user, status)
              w == save(requests, users, clock, u.instance)
          IN /\ requests' = w.table
             /\ clock' = IF w.inserted THEN clock + 1 ELSE clock
             /\ everCreated' = IF w.inserted
                                 THEN everCreated \cup
                                        {<<u.instance.from_user, u.instance.to_user>>}
                                 ELSE everCreated
             /\ last' = Updated(w.result, c.user, c.instance,
                                StatusOf(requests, c.instance.id), w.table # requests)
       /\ inflight' = Drop(c)
  /\ UNCHANGED reads
  /\ UNCHANGED <<users, nextUserId, nextRequestId, calls>>

\* ------------------------------------------------------------- destroy
\* DELETE friend-requests/{id}/ (ModelViewSet.destroy; IsAuthenticated only)
Destroy(user, rid) ==
  /\ Receive
  /\ user \in users
  /\ IF HasRow(requests, rid)
       THEN /\ requests' = requests \ {Row(requests, rid)}
            /\ last' = [Response("destroy", OK) EXCEPT !.rid = rid, !.wrote = TRUE]
       ELSE /\ last' = Response("destroy", "NotFound")
            /\ UNCHANGED requests
  /\ UNCHANGED reads
  /\ UNCHANGED <<users, nextUserId, nextRequestId, clock, inflight, everCreated>>

\* DELETE users/{id}/ (UserSearchViewSet is a ModelViewSet); the foreign keys
\* of FriendRequest are on_delete=CASCADE
DestroyUser(user, target) ==
  /\ Receive
  /\ user \in users
  /\ IF target \in users
       THEN /\ users' = users \ {target}
            /\ requests' = {r \in requests :
                              r.from_user # target /\ r.to_user # target}
            /\ last' = [Response("destroy_user", OK) EXCEPT
                          !.wrote = (\E r \in requests :
                                       r.from_user = target \/ r.to_user = target)]
       ELSE /\ last' = Response("destroy_user", "NotFound")
            /\ UNCHANGED <<users, requests>>
  /\ UNCHANGED reads
  /\ UNCHANGED <<nextUserId, nextRequestId, clock, inflight, everCreated>>

\* the response reaches the caller
Return ==
  /\ last # NoResponse
  /\ last' = NoResponse
  /\ UNCHANGED reads
  /\ UNCHANGED <<users, nextUserId, requests, nextRequestId, clock, inflight,
                 everCreated, calls>>

Next ==
  \/ Signup
  \/ \E user \in UserIds, to_user \in UserIds \cup {NoUser} :
        CreateBegin(user, to_user)
  \/ \E status \in Status \cup {Absent} : CreateSave(status)
  \/ \E user \in UserIds, rid \in RequestIds : UpdateBegin(user, rid)
  \/ \E status \in Status \cup {Absent} : UpdateSave(status)
  \/ \E user \in UserIds, rid \in RequestIds : Destroy(user, rid)
  \/ \E user \in UserIds, target \in UserIds : DestroyUser(user, target)
  \/ Return

Spec == Init /\ [][Next]_vars

\* ------------------------------------------------------------- queries
\* User.Meta.ordering = ['id']: a queryset of users is returned by ascending id
RECURSIVE order_by_id(_)
order_by_id(S) ==
  IF S = {} THEN <<>>
  ELSE LET m == CHOOSE x \in S : \A y \in S : x <= y
       IN <<m>> \o order_by_id(S \ {m})

\* accepted() that collects the requests the user sent only
accepted_sent_only(user) ==
  LET sent_requests == {r \in requests : r.from_user = user /\ r.status = ACCEPTED}
      friend_ids == {r.to_user : r \in sent_requests}
  IN order_by_id({u \in users : u \in friend_ids})

\* FriendRequestViewSet.accepted (GET friend-requests/accepted/)
accepted(user) ==
  LET sent_requests == {r \in requests : r.from_user = user /\ r.status = ACCEPTED}
      received_requests == {r \in requests : r.to_user = user /\ r.status = ACCEPTED}
      sent_friends_ids == {r.to_user : r \in sent_requests}
      received_friends_ids == {r.from_user : r \in received_requests}
      friend_ids == sent_friends_ids \cup received_friends_ids
  IN order_by_id({u \in users : u \in friend_ids})

\* pending() without the filter on the status
pending_any_status(user) == {r \in requests : r.to_user = user}

\* FriendRequestViewSet.pending (GET friend-requests/pending/): the rows
\* filter(to_user=request.user, status=PENDING) selects; the model declares no
\* ordering, so the answer is taken as a set
pending(user) == {r \in requests : r.to_user = user /\ r.status = PENDING}

\* ------------------------------------------------------------- search
\* the characters of emails, names and queries: a letter in both cases, a
\* letter in one, and the sign the view branches on
Letters == {"a", "A", "b"}
Chars == Letters \cup {"@"}

Str(alphabet, n) == UNION {[1..k -> alphabet] : k \in 0..n}

\* User.name is a required CharField, User.email an EmailField (local@domain)
Names == Str(Letters, MaxLen) \ {<<>>}
Emails == {<<x, "@", "b">> : x \in Letters}
\* request.query_params.get('q', ''): any string, a whole email among them
Queries == Str(Chars, MaxLen) \cup Emails

Profile(email, name) == [email |-> email, name |-> name]

\* the case folding of the __i lookups, character by character
UPPER(s) == [i \in DOMAIN s |-> IF s[i] = "a" THEN "A"
                                ELSE IF s[i] = "b" THEN "B" ELSE s[i]]

\* email__iexact=query
iexact(value, q) == UPPER(value) = UPPER(q)

\* name__icontains=query: LIKE %q% on the folded strings
icontains(value, q) ==
  \E i \in 1..(Len(value) - Len(q) + 1) :
     SubSeq(UPPER(value), i, i + Len(q) - 1) = UPPER(q)

\* search() that filters on the name whatever the query holds
search_by_name(q) ==
  order_by_id({u \in DOMAIN directory : icontains(directory[u].name, q)})

\* UserSearchViewSet.search (GET users/search/?q=): the queryset it builds,
\* in the order of User.Meta.ordering
search(q) ==
  order_by_id({u \in DOMAIN directory :
                 IF \E i \in DOMAIN q : q[i] = "@"
                   THEN iexact(directory[u].email, q)
                   ELSE icontains(directory[u].name, q)})

\* the User table of a search: two rows, their emails distinct (unique=True
\* compares exactly, and POST users/ stores the email as it was sent)
InitSearch ==
  /\ users = {1, 2}
  /\ nextUserId = 3
  /\ requests = {}
  /\ nextRequestId = 1
  /\ clock = 1
  /\ inflight = EmptyBag
  /\ last = NoResponse
  /\ everCreated = {}
  /\ calls = 0
  /\ directory \in {d \in [users -> {Profile(e, n) : e \in Emails, n \in Names}] :
                       d[1].email # d[2].email}
  /\ query = <<>>
  /\ found = NoAnswer

\* the endpoint only reads, so every query of a run is answered from the table
\* the run began with: a run answers one
Search(q) ==
  /\ found = NoAnswer
  /\ query' = q
  /\ found' = search(q)
  /\ UNCHANGED <<users, nextUserId, requests, nextRequestId, clock, inflight,
                 last, everCreated, calls, directory>>

NextSearch == \E q \in Queries : Search(q)

SpecSearch == InitSearch /\ [][NextSearch]_vars

\* ------------------------------------------------------------- any store
\* the tables as anything that writes to the database may have left them: two
\* users and any FriendRequest rows the schema admits (one per ordered pair,
\* both ends users, any status); the schema has no constraint that keeps
\* from_user and to_user apart
InitStore ==
  /\ users = {1, 2}
  /\ nextUserId = 3
  /\ \E pairs \in SUBSET (users \X users) :
       \E status \in [pairs -> Status] :
         requests = {FriendRequest(2 * (p[1] - 1) + p[2], p[1], p[2], status[p], 1) :
                       p \in pairs}
  /\ nextRequestId = 5
  /\ clock = 2
  /\ inflight = EmptyBag
  /\ last = NoResponse
  /\ everCreated = {<<r.from_user, r.to_user>> : r \in requests}
  /\ calls = 0
  /\ directory = <<>>
  /\ query = <<>>
  /\ found = NoAnswer

\* GET friend-requests/accepted/ by user; a run answers one query
ListFriends(user) ==
  /\ found = NoAnswer
  /\ user \in users
  /\ query' = <<user>>
  /\ found' = accepted(user)
  /\ UNCHANGED <<users, nextUserId, requests, nextRequestId, clock, inflight,
                 last, everCreated, calls, directory>>

NextStore == \E user \in UserIds : ListFriends(user)

SpecStore == InitStore /\ [][NextStore]_vars

\* ------------------------------------------------------------- properties

\* C1: every successful create inserts a row whose status is pending, whatever
\* the payload of the call held.
C1_CreateInsertsPending ==
  (last.op = "create" /\ last.result = OK) =>
    StatusOf(requests, last.rid) = PENDING

\* C2: an update by the recipient of a row that was already accepted or
\* rejected when the call read it fails with AlreadyResolved and leaves the
\* status as it was.
C2_SecondResolveRejected ==
  (last.op = "update" /\ last.byRecipient /\ last.loaded \in Terminal) =>
    (last.result = "AlreadyResolved" /\ StatusOf(requests, last.rid) = last.before)

\* C3: an update of an existing row by a user who is not its to_user fails and
\* writes nothing; when the call is a resolve (a status and nothing else) the
\* failure is Unauthorized.
C3_OnlyRecipientResolves ==
  (last.op = "update" /\ last.result # "NotFound" /\ ~last.byRecipient) =>
    /\ last.result # OK
    /\ ~last.wrote
    /\ last.plain => last.result = "Unauthorized"

C3_Witness ==
  /\ last.op = "update" /\ last.plain /\ ~last.byRecipient
  /\ last.result = "Unauthorized"
  /\ requests # {}

\* C4: the table never holds two rows with the same (from_user, to_user).
C4_UniquePair ==
  \A r1 \in requests, r2 \in requests :
    (r1.from_user = r2.from_user /\ r1.to_user = r2.to_user) => r1 = r2

\* two creates of one pair passed validation and the second insert was refused
C4_Witness ==
  /\ last.op = "create" /\ last.result = "IntegrityError" /\ last.dup
  /\ Cardinality(requests) >= 1

\* C5: once a row for A -> B (A # B, both users) has been inserted, every
\* create of A -> B that begins later fails with DuplicateRequest and adds no row.
C5_NoReRequest ==
  (last.op = "create" /\ last.seen /\ ~last.self /\ last.result # "UnknownUser") =>
    (last.result = "DuplicateRequest" /\ ~last.wrote)

\* C6: a create whose to_user is the acting user fails with SelfRequest and
\* inserts nothing, and no row of the table has from_user = to_user.
C6_NoSelfRequest ==
  /\ \A r \in requests : r.from_user # r.to_user
  /\ (last.op = "create" /\ last.self) => (last.result = "SelfRequest" /\ ~last.wrote)

C6_Witness ==
  /\ last.op = "create" /\ last.self /\ last.result = "SelfRequest"
  /\ requests # {}

\* C7: for every user A, accepted(A) lists B exactly when an accepted row
\* joins A and B in either direction, lists B at most once and never lists A.
C7_Friends ==
  \A A \in users, B \in UserIds :
    LET friends == accepted(A)
    IN /\ (\E i \in DOMAIN friends : friends[i] = B) <=>
            (\E r \in requests :
               /\ r.status = ACCEPTED
               /\ \/ (r.from_user = A /\ r.to_user = B)
                  \/ (r.from_user = B /\ r.to_user = A))
       /\ Cardinality({i \in DOMAIN friends : friends[i] = B}) <= 1
       /\ \A i \in DOMAIN friends : friends[i] # A

\* both directions accepted between two users: each lists the other once
C7_Witness ==
  \E r1 \in requests, r2 \in requests :
    /\ r1.status = ACCEPTED /\ r2.status = ACCEPTED
    /\ r1.from_user = r2.to_user /\ r1.to_user = r2.from_user
    /\ accepted(r1.from_user) = <<r1.to_user>>
    /\ accepted(r1.to_user) = <<r1.from_user>>

\* C8: a row of the table is in the table in every later state.
C8_NeverDeleted ==
  [][\A r \in requests : HasRow(requests', r.id)]_vars

\* C9: of two updates by the recipient that both read the row as pending, the
\* one that writes second fails with AlreadyResolved and leaves the status
\* the first one wrote.
C9_ConcurrentResolveOnce ==
  (last.op = "update" /\ last.byRecipient
     /\ last.loaded = PENDING /\ last.before \in Terminal) =>
    (last.result = "AlreadyResolved" /\ StatusOf(requests, last.rid) = last.before)

\* C10: a create that ends while a row for its pair is in the table is
\* rejected with DuplicateRequest, also when the row was inserted after the
\* call's own existence check.
C10_ConcurrentCreateDuplicate ==
  (last.op = "create" /\ last.dup /\ ~last.self) => last.result = "DuplicateRequest"

\* C11: the two directions of a pair are separate rows. While A -> B is in the
\* table and B -> A is not, the validation of a create of B -> A by B passes,
\* whatever the status of A -> B; and an update writes no row but the one it
\* addresses, so the reciprocal row keeps its status and every other field.
C11_MutualIndependent ==
  /\ [](\A r \in requests :
          (/\ r.from_user \in users /\ r.to_user \in users
           /\ r.from_user # r.to_user
           /\ ~ \E t \in requests :
                  t.from_user = r.to_user /\ t.to_user = r.from_user)
          => is_valid(r.to_user, r.from_user, FALSE, requests, users) = OK)
  /\ [][last'.op = "update" =>
          \A r \in requests : r.id # last'.rid => r \in requests']_vars

\* A -> B and B -> A were both pending and one of them has just been resolved
\* by its recipient: the other is still pending
C11_Witness ==
  /\ last.op = "update" /\ last.result = OK /\ last.byRecipient
  /\ last.before = PENDING
  /\ \E r \in requests, t \in requests :
       /\ r.id = last.rid /\ r.status \in Terminal
       /\ t.from_user = r.to_user /\ t.to_user = r.from_user
       /\ t.status = PENDING

\* C12: pending(U) holds the rows of the table addressed to U whose status is
\* pending and nothing else: no row U sent, no row that is accepted or
\* rejected, and in particular not the row an update has just resolved.
C12_PendingList ==
  /\ \A U \in users :
       /\ \A r \in pending(U) :
            r \in requests /\ r.to_user = U /\ r.from_user # U
              /\ r.status \notin Terminal
       /\ \A r \in requests :
            (r.to_user = U /\ r.status = PENDING) => r \in pending(U)
  /\ (last.op = "update" /\ last.result = OK
        /\ StatusOf(requests, last.rid) \in Terminal) =>
       \A U \in users : \A r \in pending(U) : r.id # last.rid

\* V -> U has just been resolved by U while U -> V is pending: pending(U) is
\* empty and pending(V) holds U -> V
C12_Witness ==
  /\ last.op = "update" /\ last.result = OK /\ last.before = PENDING
  /\ \E r \in requests, t \in requests :
       /\ r.id = last.rid /\ r.status \in Terminal
       /\ t.from_user = r.to_user /\ t.to_user = r.from_user
       /\ pending(r.to_user) = {}
       /\ pending(t.to_user) = {t}

\* C13: the answer to a query that holds an @ lists exactly the users whose
\* email is the query up to the case of its letters; the answer to a query
\* without @ lists exactly the users whose name has the query as a substring up
\* to the case of its letters, so the empty query lists every user.
C13_Search ==
  found # NoAnswer =>
    LET same(s, t) ==
          /\ Len(s) = Len(t)
          /\ \A i \in DOMAIN s : s[i] = t[i] \/ {s[i], t[i]} = {"a", "A"}
        listed == {found[i] : i \in DOMAIN found}
    IN /\ \A u \in users :
            u \in listed <=>
              IF "@" \in {query[i] : i \in DOMAIN query}
                THEN same(directory[u].email, query)
                ELSE \E j \in 0..Len(directory[u].name),
                        k \in 0..Len(directory[u].name) :
                       /\ j <= k
                       /\ same(SubSeq(directory[u].name, j + 1, k), query)
       /\ listed \subseteq users
       /\ query = <<>> => listed = users

\* a query with an @ found a user whose email differs from it in case
C13_Witness ==
  /\ found # NoAnswer /\ found # <<>>
  /\ "@" \in {query[i] : i \in DOMAIN query}
  /\ \E i \in DOMAIN found : directory[found[i]].email # query

\* C14: the status of a row moves from pending to accepted or rejected and no
\* further: a row that is accepted or rejected has the same status after every
\* step that keeps it, and the status an update leaves in the row it wrote is
\* accepted or rejected, never pending.
C14_StatusMonotone ==
  [][/\ \A r \in requests :
          (r.status \in Terminal /\ HasRow(requests', r.id)) =>
            StatusOf(requests', r.id) = r.status
     /\ (last'.op = "update" /\ last'.wrote) =>
          StatusOf(requests', last'.rid) \in Terminal]_vars

\* C15: from_user, to_user and created_at of a request never change: a row
\* that a step keeps has the three fields it had, and the row an update leaves
\* under the id it loaded has the three fields of the row it loaded, whatever
\* to_user the payload carried and although validate() put the acting user
\* into the validated data as from_user.
C15_UpdateFrame ==
  [][/\ \A r \in requests : \A n \in requests' :
          n.id = r.id =>
            /\ n.from_user = r.from_user /\ n.to_user = r.to_user
            /\ n.created_at = r.created_at
     /\ \A c \in Calls :
          (c.op = "update" /\ CopiesIn(c, inflight') < CopiesIn(c, inflight)) =>
            \A n \in requests' :
              n.id = c.instance.id =>
                /\ n.from_user = c.instance.from_user
                /\ n.to_user = c.instance.to_user
                /\ n.created_at = c.instance.created_at]_vars

\* C16: whatever rows the table holds, a row with from_user = to_user among
\* them or not, the list of friends returned to a user does not hold the user.
C16_FriendsExcludeSelf ==
  (found # NoAnswer /\ query # <<>>) =>
    \A i \in DOMAIN found : found[i] # query[1]

\* C17: a row becomes accepted through an update by its to_user and in no
\* other way: every step that leaves a row accepted which was not accepted
\* before it is the write of an update of that row whose acting user is the
\* row's to_user. Calls of the sender alone therefore never make the sender a
\* friend of the recipient.
C17_RecipientConsent ==
  [][\A n \in requests' :
       (n.status = ACCEPTED /\ StatusOf(requests, n.id) # ACCEPTED) =>
         /\ last'.op = "update" /\ last'.byRecipient
         /\ last'.rid = n.id /\ last'.result = OK]_vars

\* C18: in every reachable state the friendship the lists show is mutual:
\* accepted(A) holds B exactly when accepted(B) holds A.
C18_FriendsSymmetric ==
  \A A \in users, B \in users :
    (\E i \in DOMAIN accepted(A) : accepted(A)[i] = B) <=>
      (\E j \in DOMAIN accepted(B) : accepted(B)[j] = A)

\* B has just accepted A -> B and there is no row B -> A: each of the two
\* lists the other
C18_Witness ==
  \E r \in requests :
    /\ last.op = "update" /\ last.result = OK /\ last.rid = r.id
    /\ last.before = PENDING
    /\ r.status = ACCEPTED
    /\ ~ \E t \in requests : t.from_user = r.to_user /\ t.to_user = r.from_user
    /\ r.to_user \in {accepted(r.from_user)[i] : i \in DOMAIN accepted(r.from_user)}
    /\ r.from_user \in {accepted(r.to_user)[i] : i \in DOMAIN accepted(r.to_user)}
====
